---- MODULE Spec2Model ----
(***************************************************************************)
(* A model of src/main.py: one run of insert_image_to_pdf, step by step.   *)
(*                                                                         *)
(* Lengths and angles are Python floats in the source.  Here a float is a  *)
(* whole number of 1/Scale units (fixed point): additions, subtractions    *)
(* and the products the run needs are exact, a division rounds (down) to   *)
(* the nearest unit, where Python rounds to the nearest double.            *)
(***************************************************************************)
EXTENDS Integers, Sequences, FiniteSets, TLC

(***************************************************************************)
(* Bounds of the model and the inputs it enumerates.                       *)
(***************************************************************************)
MaxPages == 2

\* units per point; chosen so that MM_TO_POINTS is a whole number of units
Scale == 20000

\* main.py:10  MM_TO_POINTS = 2.83465  (56693 / 20000)
MM_TO_POINTS == 56693

\* main.py:17  max_width=200 (points), the default used by the call at 130
DefaultMaxWidth == 200 * Scale

Float(n) == n * Scale

\* a page of the file: the mediabox (in units) and the page dictionary,
\* which holds "/Rotate" or does not
Page(w, h, attrs) == [mediabox |-> <<w, h>>, attrs |-> attrs]

NoRotate == <<>>

Rotate(r) == "/Rotate" :> r

PageKinds ==
    { Page(Float(612), Float(792), Rotate(0)),      \* portrait
      Page(Float(612), Float(792), Rotate(90)),     \* shown as landscape
      Page(Float(600), Float(600), NoRotate),       \* square, no flag
      Page(Float(150) + 2 * 50 * MM_TO_POINTS, Float(792), Rotate(180)) }
                                                    \* exact fit at 50 mm

\* values of /Rotate, the four of the PDF format and some others
RotateFlags ==
    { NoRotate, Rotate(0), Rotate(90), Rotate(180), Rotate(270),
      Rotate(45), Rotate(360), Rotate(-90) }

\* one-page documents of many shapes and flags
SinglePages ==
    { << Page(Float(w), Float(h), a) >> :
         w \in {400, 600, 792}, h \in {400, 600, 792}, a \in RotateFlags }

\* native pixel sizes (width, height) of the image file
ImageSizes == { <<150, 100>>, <<400, 200>>, <<201, 5>> }

\* (top, bottom, side) margins in millimetres; the first is the default of
\* main.py:104
MarginChoices == { <<100, 50, 50>>, <<50, 25, 20>> }

\* outcomes of random.random() as fractions <<num, den>>: the two extremes,
\* 0 and the end point that rounding may produce
UnitSamples == { <<0, 1>>, <<1, 1>> }

RECURSIVE SeqsUpTo(_, _)
SeqsUpTo(S, n) ==
    IF n = 0 THEN { <<>> }
    ELSE LET shorter == SeqsUpTo(S, n - 1)
         IN  shorter \cup { Append(s, e) : s \in { t \in shorter : Len(t) = n - 1 }, e \in S }

(***************************************************************************)
(* State.                                                                  *)
(***************************************************************************)
VARIABLES
    \* the file system and the arguments of the call
    input_pdf_exists, image_exists, pdf_file, image_file,
    top_margin, bottom_margin, side_margin, output_file,
    \* locals of insert_image_to_pdf
    top_margin_points, bottom_margin_points, side_margin_points,
    input_pdf, output_pdf, img_width, img_height, img,
    page_num, is_landscape, rotation_angle,
    \* locals of process_page
    page_width, page_height, bounds, x_pos, y_pos, image_page,
    \* control
    pc, raised,
    \* history: what was opened, which random.uniform calls were made
    opened, draws

args == <<input_pdf_exists, image_exists, pdf_file, image_file,
          top_margin, bottom_margin, side_margin>>

margins_points == <<top_margin_points, bottom_margin_points, side_margin_points>>

image_locals == <<img_width, img_height, img>>

frame == <<page_width, page_height, bounds, x_pos, y_pos, image_page>>

vars == <<args, output_file, margins_points, input_pdf, output_pdf,
          image_locals, page_num, is_landscape, rotation_angle, frame,
          pc, raised, opened, draws>>

NoError == [type |-> "none", page |-> 0, what |-> ""]

NoBounds == <<0, 0, 0, 0>>

NoLayer == [pagesize |-> <<0, 0>>, translate |-> <<0, 0>>, rotate |-> 0,
            width |-> 0, height |-> 0]

(***************************************************************************)
(* Pure functions of main.py.                                              *)
(***************************************************************************)

\* get_image_dimensions limiting the width and leaving the height as it is
get_image_dimensions_keep_height(native, max_width) ==
    LET w0 == Float(native[1])
        h0 == Float(native[2])
    IN  IF w0 > max_width
        THEN <<max_width, h0>>
        ELSE <<w0, h0>>

\* main.py:17-27.  aspect_ratio is kept as the fraction it is; the division
\* by it is the one rounding step.
get_image_dimensions(native, max_width) ==
    LET w0 == Float(native[1])
        h0 == Float(native[2])
        aspect_ratio == <<native[1], native[2]>>
    IN  IF w0 > max_width
        THEN <<max_width, (max_width * aspect_ratio[2]) \div aspect_ratio[1]>>
        ELSE <<w0, h0>>

\* main.py:33  page.get('/Rotate', 0)
get_rotate(page) ==
    IF "/Rotate" \in DOMAIN page.attrs THEN page.attrs["/Rotate"] ELSE 0

\* determine_page_orientation with >= for >: a square page is landscape
determine_page_orientation_ge(page) ==
    LET w == page.mediabox[1]
        h == page.mediabox[2]
        rotation == get_rotate(page)
        pw == IF rotation \in {90, 270} THEN h ELSE w
        ph == IF rotation \in {90, 270} THEN w ELSE h
    IN  <<pw, ph, pw >= ph>>

\* main.py:29-39
determine_page_orientation(page) ==
    LET w == page.mediabox[1]
        h == page.mediabox[2]
        rotation == get_rotate(page)
        pw == IF rotation \in {90, 270} THEN h ELSE w
        ph == IF rotation \in {90, 270} THEN w ELSE h
    IN  <<pw, ph, pw > ph>>

\* calculate_position_bounds with < for <=: an empty interval is accepted
calculate_position_bounds_lt(pw, ph, iw, ih, top_m, bottom_m, side_m) ==
    LET max_x == pw - iw - side_m
        min_x == side_m
        max_y == ph - ih - top_m
        min_y == bottom_m
    IN  IF max_x < min_x \/ max_y < min_y
        THEN [ok |-> FALSE, value |-> NoBounds]
        ELSE [ok |-> TRUE, value |-> <<min_x, max_x, min_y, max_y>>]

\* main.py:41-52
calculate_position_bounds(pw, ph, iw, ih, top_m, bottom_m, side_m) ==
    LET max_x == pw - iw - side_m
        min_x == side_m
        max_y == ph - ih - top_m
        min_y == bottom_m
    IN  IF max_x <= min_x \/ max_y <= min_y
        THEN [ok |-> FALSE, value |-> NoBounds]
        ELSE [ok |-> TRUE, value |-> <<min_x, max_x, min_y, max_y>>]

\* random.uniform(a, b) = a + (b - a) * random(), with random() = r
uniform(a, b, r) == a + ((b - a) * r[1]) \div r[2]

\* get_random_position drawing y from the page's lower edge, not from the
\* bottom margin
get_random_position_edge(min_x, max_x, min_y, max_y, rx, ry) ==
    <<uniform(min_x, max_x, rx), uniform(0, max_y, ry)>>

\* main.py:54-58
get_random_position(min_x, max_x, min_y, max_y, rx, ry) ==
    <<uniform(min_x, max_x, rx), uniform(min_y, max_y, ry)>>

\* main.py:60-81
create_image_layer(pw, ph, iw, ih, x, y, angle) ==
    [pagesize |-> <<pw, ph>>, translate |-> <<x, y>>, rotate |-> angle,
     width |-> iw, height |-> ih]

\* main.py:100  page.merge_page(image_page): the page keeps its content and
\* gets the layer on top
merge_page(page, layer) ==
    [page EXCEPT !.content = Append(@, layer)]

\* PyPDF2.PdfReader(path): the pages of the file, each with its identity
\* and its original content
PdfReader(file) ==
    [i \in 1..Len(file) |->
        [id |-> i, mediabox |-> file[i].mediabox, attrs |-> file[i].attrs,
         content |-> << [pagesize |-> file[i].mediabox, translate |-> <<0, 0>>,
                         rotate |-> 0, width |-> 0, height |-> 0] >>]]

(***************************************************************************)
(* Init: the state at the call of insert_image_to_pdf.                     *)
(***************************************************************************)
\* the locals are unassigned, nothing is open, the output does not exist
InitLocals ==
    /\ output_file = [exists |-> FALSE, pages |-> <<>>]
    /\ top_margin_points = 0
    /\ bottom_margin_points = 0
    /\ side_margin_points = 0
    /\ input_pdf = <<>>
    /\ output_pdf = <<>>
    /\ img_width = 0
    /\ img_height = 0
    /\ img = FALSE
    /\ page_num = -1
    /\ is_landscape = FALSE
    /\ rotation_angle = 0
    /\ page_width = 0
    /\ page_height = 0
    /\ bounds = NoBounds
    /\ x_pos = 0
    /\ y_pos = 0
    /\ image_page = NoLayer
    /\ pc = "convert"
    /\ raised = NoError
    /\ opened = {}
    /\ draws = <<>>

Init ==
    /\ input_pdf_exists \in BOOLEAN
    /\ image_exists \in BOOLEAN
    /\ pdf_file \in SeqsUpTo(PageKinds, MaxPages)
    /\ image_file \in ImageSizes
    /\ \E m \in MarginChoices :
          /\ top_margin = m[1]
          /\ bottom_margin = m[2]
          /\ side_margin = m[3]
    /\ InitLocals

\* the call on a one-page document, for the properties of a single page
InitSinglePage ==
    /\ input_pdf_exists = TRUE
    /\ image_exists = TRUE
    /\ pdf_file \in SinglePages
    /\ image_file \in ImageSizes
    /\ \E m \in MarginChoices :
          /\ top_margin = m[1]
          /\ bottom_margin = m[2]
          /\ side_margin = m[3]
    /\ InitLocals

(***************************************************************************)
(* insert_image_to_pdf, main.py:103-150.                                   *)
(***************************************************************************)

\* main.py:121-123
ConvertMargins ==
    /\ pc = "convert"
    /\ top_margin_points' = top_margin * MM_TO_POINTS
    /\ bottom_margin_points' = bottom_margin * MM_TO_POINTS
    /\ side_margin_points' = side_margin * MM_TO_POINTS
    /\ pc' = "check_input"
    /\ UNCHANGED <<args, output_file, input_pdf, output_pdf, image_locals,
                   page_num, is_landscape, rotation_angle, frame, raised,
                   opened, draws>>

\* main.py:125 and 12-15
CheckInputExists ==
    /\ pc = "check_input"
    /\ IF ~input_pdf_exists
       THEN /\ raised' = [type |-> "FileNotFoundError", page |-> 0,
                          what |-> "Input PDF"]
            /\ pc' = "raised"
       ELSE /\ raised' = raised
            /\ pc' = "check_image"
    /\ UNCHANGED <<args, output_file, margins_points, input_pdf, output_pdf,
                   image_locals, page_num, is_landscape, rotation_angle,
                   frame, opened, draws>>

\* CheckImageExists without the check: the image is looked for only when
\* it is opened
CheckImageExists_lazy ==
    /\ pc = "check_image"
    /\ raised' = raised
    /\ pc' = "open"
    /\ UNCHANGED <<args, output_file, margins_points, input_pdf, output_pdf,
                   image_locals, page_num, is_landscape, rotation_angle,
                   frame, opened, draws>>

\* main.py:126 and 12-15
CheckImageExists ==
    /\ pc = "check_image"
    /\ IF ~image_exists
       THEN /\ raised' = [type |-> "FileNotFoundError", page |-> 0,
                          what |-> "Image"]
            /\ pc' = "raised"
       ELSE /\ raised' = raised
            /\ pc' = "open"
    /\ UNCHANGED <<args, output_file, margins_points, input_pdf, output_pdf,
                   image_locals, page_num, is_landscape, rotation_angle,
                   frame, opened, draws>>

\* main.py:128-129
OpenDocuments ==
    /\ pc = "open"
    /\ input_pdf' = PdfReader(pdf_file)
    /\ output_pdf' = <<>>
    /\ opened' = opened \cup {"input_pdf"}
    /\ pc' = "image_dimensions"
    /\ UNCHANGED <<args, output_file, margins_points, image_locals, page_num,
                   is_landscape, rotation_angle, frame, raised, draws>>

\* main.py:130
GetImageDimensions ==
    /\ pc = "image_dimensions"
    /\ LET d == get_image_dimensions(image_file, DefaultMaxWidth)
       IN  /\ img_width' = d[1]
           /\ img_height' = d[2]
    /\ opened' = opened \cup {"image"}
    /\ pc' = "image_reader"
    /\ UNCHANGED <<args, output_file, margins_points, input_pdf, output_pdf,
                   img, page_num, is_landscape, rotation_angle, frame,
                   raised, draws>>

\* main.py:131
LoadImage ==
    /\ pc = "image_reader"
    /\ img' = TRUE
    /\ opened' = opened \cup {"image"}
    /\ pc' = "loop"
    /\ UNCHANGED <<args, output_file, margins_points, input_pdf, output_pdf,
                   img_width, img_height, page_num, is_landscape,
                   rotation_angle, frame, raised, draws>>

\* main.py:133  the next index of range(len(input_pdf.pages)), or the end
ForNext ==
    /\ pc = "loop"
    /\ IF page_num + 1 < Len(input_pdf)
       THEN /\ page_num' = page_num + 1
            /\ pc' = "orient"
       ELSE /\ page_num' = page_num
            /\ pc' = "write"
    /\ UNCHANGED <<args, output_file, margins_points, input_pdf, output_pdf,
                   image_locals, is_landscape, rotation_angle, frame, raised,
                   opened, draws>>

\* main.py:135-137
ResolveOrientation ==
    /\ pc = "orient"
    /\ is_landscape' = determine_page_orientation(input_pdf[page_num + 1])[3]
    /\ pc' = "angle"
    /\ UNCHANGED <<args, output_file, margins_points, input_pdf, output_pdf,
                   image_locals, page_num, rotation_angle, frame, raised,
                   opened, draws>>

\* DrawRotationAngle with the landscape range of the docstring (-15 to 0)
DrawRotationAngle_docstring ==
    /\ pc = "angle"
    /\ \E r \in UnitSamples :
          rotation_angle' = IF ~is_landscape
                            THEN uniform(Float(0), Float(10), r)
                            ELSE uniform(Float(-15), Float(0), r)
    /\ draws' = Append(draws, [page |-> page_num, var |-> "rotation_angle"])
    /\ pc' = "pp_orient"
    /\ UNCHANGED <<args, output_file, margins_points, input_pdf, output_pdf,
                   image_locals, page_num, is_landscape, frame, raised,
                   opened>>

\* main.py:140
DrawRotationAngle ==
    /\ pc = "angle"
    /\ \E r \in UnitSamples :
          rotation_angle' = IF ~is_landscape
                            THEN uniform(Float(0), Float(10), r)
                            ELSE uniform(Float(90), Float(75), r)
    /\ draws' = Append(draws, [page |-> page_num, var |-> "rotation_angle"])
    /\ pc' = "pp_orient"
    /\ UNCHANGED <<args, output_file, margins_points, input_pdf, output_pdf,
                   image_locals, page_num, is_landscape, frame, raised,
                   opened>>

\* main.py:141 and 86
ProcessPageOrientation ==
    /\ pc = "pp_orient"
    /\ LET o == determine_page_orientation(input_pdf[page_num + 1])
       IN  /\ page_width' = o[1]
           /\ page_height' = o[2]
    /\ pc' = "pp_bounds"
    /\ UNCHANGED <<args, output_file, margins_points, input_pdf, output_pdf,
                   image_locals, page_num, is_landscape, rotation_angle,
                   bounds, x_pos, y_pos, image_page, raised, opened, draws>>

\* ProcessPageBounds going on to the sampling whatever the bounds are
ProcessPageBounds_unchecked ==
    /\ pc = "pp_bounds"
    /\ bounds' = << side_margin_points,
                    page_width - img_width - side_margin_points,
                    bottom_margin_points,
                    page_height - img_height - top_margin_points >>
    /\ pc' = "pp_position"
    /\ UNCHANGED <<page_width, page_height, x_pos, y_pos, image_page>>
    /\ UNCHANGED <<args, output_file, margins_points, input_pdf, output_pdf,
                   image_locals, page_num, is_landscape, rotation_angle,
                   raised, opened, draws>>

\* main.py:88-91; the ValueError of line 50 leaves process_page and reaches
\* the except clause of line 146
ProcessPageBounds ==
    /\ pc = "pp_bounds"
    /\ LET b == calculate_position_bounds(page_width, page_height,
                    img_width, img_height, top_margin_points,
                    bottom_margin_points, side_margin_points)
       IN  IF b.ok
           THEN /\ bounds' = b.value
                /\ pc' = "pp_position"
                /\ UNCHANGED <<page_width, page_height, x_pos, y_pos, image_page>>
           ELSE /\ page_width' = 0
                /\ page_height' = 0
                /\ bounds' = NoBounds
                /\ x_pos' = 0
                /\ y_pos' = 0
                /\ image_page' = NoLayer
                /\ pc' = "except"
    /\ UNCHANGED <<args, output_file, margins_points, input_pdf, output_pdf,
                   image_locals, page_num, is_landscape, rotation_angle,
                   raised, opened, draws>>

\* main.py:93 and 54-58
ProcessPagePosition ==
    /\ pc = "pp_position"
    /\ \E rx \in UnitSamples, ry \in UnitSamples :
          LET p == get_random_position(bounds[1], bounds[2], bounds[3],
                                       bounds[4], rx, ry)
          IN  /\ x_pos' = p[1]
              /\ y_pos' = p[2]
    /\ draws' = draws \o << [page |-> page_num, var |-> "x_pos"],
                            [page |-> page_num, var |-> "y_pos"] >>
    /\ pc' = "pp_layer"
    /\ UNCHANGED <<args, output_file, margins_points, input_pdf, output_pdf,
                   image_locals, page_num, is_landscape, rotation_angle,
                   page_width, page_height, bounds, image_page, raised,
                   opened>>

\* main.py:95-98
ProcessPageLayer ==
    /\ pc = "pp_layer"
    /\ image_page' = create_image_layer(page_width, page_height, img_width,
                         img_height, x_pos, y_pos, rotation_angle)
    /\ pc' = "pp_merge"
    /\ UNCHANGED <<args, output_file, margins_points, input_pdf, output_pdf,
                   image_locals, page_num, is_landscape, rotation_angle,
                   page_width, page_height, bounds, x_pos, y_pos, raised,
                   opened, draws>>

\* main.py:100-101; the page is changed in place and process_page returns
ProcessPageMerge ==
    /\ pc = "pp_merge"
    /\ input_pdf' = [input_pdf EXCEPT
                        ![page_num + 1] = merge_page(@, image_page)]
    /\ page_width' = 0
    /\ page_height' = 0
    /\ bounds' = NoBounds
    /\ x_pos' = 0
    /\ y_pos' = 0
    /\ image_page' = NoLayer
    /\ pc' = "add_page"
    /\ UNCHANGED <<args, output_file, margins_points, output_pdf,
                   image_locals, page_num, is_landscape, rotation_angle,
                   raised, opened, draws>>

\* AddPage putting the page in front of the pages already added
AddPage_front ==
    /\ pc = "add_page"
    /\ output_pdf' = <<input_pdf[page_num + 1]>> \o output_pdf
    /\ pc' = "loop"
    /\ UNCHANGED <<args, output_file, margins_points, input_pdf,
                   image_locals, page_num, is_landscape, rotation_angle,
                   frame, raised, opened, draws>>

\* main.py:145
AddPage ==
    /\ pc = "add_page"
    /\ output_pdf' = Append(output_pdf, input_pdf[page_num + 1])
    /\ pc' = "loop"
    /\ UNCHANGED <<args, output_file, margins_points, input_pdf,
                   image_locals, page_num, is_landscape, rotation_angle,
                   frame, raised, opened, draws>>

\* ReraiseWithPage swallowing the error: the loop goes on with the next page
ReraiseWithPage_swallow ==
    /\ pc = "except"
    /\ raised' = raised
    /\ pc' = "loop"
    /\ UNCHANGED <<args, output_file, margins_points, input_pdf, output_pdf,
                   image_locals, page_num, is_landscape, rotation_angle,
                   frame, opened, draws>>

\* ReraiseWithPage naming the page by its 0-based index
ReraiseWithPage_zero_based ==
    /\ pc = "except"
    /\ raised' = [type |-> "ValueError", page |-> page_num,
                  what |-> "Margins too large"]
    /\ pc' = "raised"
    /\ UNCHANGED <<args, output_file, margins_points, input_pdf, output_pdf,
                   image_locals, page_num, is_landscape, rotation_angle,
                   frame, opened, draws>>

\* main.py:146-147
ReraiseWithPage ==
    /\ pc = "except"
    /\ raised' = [type |-> "ValueError", page |-> page_num + 1,
                  what |-> "Margins too large"]
    /\ pc' = "raised"
    /\ UNCHANGED <<args, output_file, margins_points, input_pdf, output_pdf,
                   image_locals, page_num, is_landscape, rotation_angle,
                   frame, opened, draws>>

\* main.py:149-150
WriteOutput ==
    /\ pc = "write"
    /\ output_file' = [exists |-> TRUE, pages |-> output_pdf]
    /\ opened' = opened \cup {"output_file"}
    /\ pc' = "done"
    /\ UNCHANGED <<args, margins_points, input_pdf, output_pdf, image_locals,
                   page_num, is_landscape, rotation_angle, frame, raised,
                   draws>>

Next ==
    \/ ConvertMargins
    \/ CheckInputExists
    \/ CheckImageExists
    \/ OpenDocuments
    \/ GetImageDimensions
    \/ LoadImage
    \/ ForNext
    \/ ResolveOrientation
    \/ DrawRotationAngle
    \/ ProcessPageOrientation
    \/ ProcessPageBounds
    \/ ProcessPagePosition
    \/ ProcessPageLayer
    \/ ProcessPageMerge
    \/ AddPage
    \/ ReraiseWithPage
    \/ WriteOutput

Spec == Init /\ [][Next]_vars

SpecSinglePage == InitSinglePage /\ [][Next]_vars

(***************************************************************************)
(* What the properties below speak about, written from the input alone.    *)
(***************************************************************************)

\* the displayed width and height of a page of the file
Shown(p) ==
    IF "/Rotate" \in DOMAIN p.attrs /\ p.attrs["/Rotate"] \in {90, 270}
    THEN <<p.mediabox[2], p.mediabox[1]>>
    ELSE <<p.mediabox[1], p.mediabox[2]>>

\* the image and the margins leave no room on page p
NoRoom(p) ==
    \/ img_width + 2 * side_margin * MM_TO_POINTS >= Shown(p)[1]
    \/ img_height + top_margin * MM_TO_POINTS
          + bottom_margin * MM_TO_POINTS >= Shown(p)[2]

\* the 0-based page numbers for which random.uniform was called
DrawnPages == { draws[k].page : k \in 1..Len(draws) }

\* the original content of page i of the file, as the reader delivers it
Original(i) == PdfReader(pdf_file)[i]

(***************************************************************************)
(* C1  All or nothing: the output file is opened and written only when     *)
(* every page of the input has been appended to the writer, and a run in   *)
(* which bounds computation failed on a page never opens or writes it.     *)
(***************************************************************************)
C1_AllOrNothing ==
    /\ (output_file.exists \/ "output_file" \in opened) =>
          /\ pc = "done"
          /\ raised = NoError
          /\ Len(output_pdf) = Len(pdf_file)
          /\ output_file.pages = output_pdf
    /\ pc \in {"except", "raised"} =>
          /\ ~output_file.exists
          /\ "output_file" \notin opened
          /\ output_file.pages = <<>>

\* a run that failed on a later page, with pages already appended
C1_Witness ==
    /\ pc = "raised"
    /\ raised.type = "ValueError"
    /\ Len(output_pdf) >= 1
    /\ ~output_file.exists

(***************************************************************************)
(* C2  Fail fast with index: a run that aborts with the ValueError of      *)
(* bounds computation names the 1-based index of the first page without    *)
(* room; exactly the pages before it are processed and appended, no page   *)
(* after it is touched; and a run whose input has a page without room      *)
(* never completes.                                                        *)
(***************************************************************************)
C2_FailFastWithIndex ==
    /\ (pc = "raised" /\ raised.type = "ValueError") =>
          LET k == raised.page
          IN  /\ k \in 1..Len(pdf_file)
              /\ NoRoom(pdf_file[k])
              /\ \A j \in 1..(k - 1) : ~NoRoom(pdf_file[j])
              /\ page_num = k - 1
              /\ Len(output_pdf) = k - 1
              /\ \A j \in 1..(k - 1) :
                    /\ output_pdf[j].id = j
                    /\ Len(output_pdf[j].content) = 2
                    /\ input_pdf[j] = output_pdf[j]
              /\ \A j \in k..Len(pdf_file) : input_pdf[j] = Original(j)
              /\ \A j \in (k + 1)..Len(pdf_file) : (j - 1) \notin DrawnPages
    /\ pc \in {"write", "done"} =>
          \A j \in 1..Len(pdf_file) : ~NoRoom(pdf_file[j])

\* the second page fails after the first was appended, and a page follows
\* or not
C2_Witness ==
    /\ pc = "raised"
    /\ raised.type = "ValueError"
    /\ raised.page = 2
    /\ Len(output_pdf) = 1

(***************************************************************************)
(* C3  Eager file check: when the input document or the image is missing   *)
(* the run fails with FileNotFoundError before anything is opened, before  *)
(* any page is processed or any random value drawn, and the output file    *)
(* is not created; no other run fails with it, and the failure of bounds   *)
(* computation is a different kind.                                        *)
(***************************************************************************)
C3_EagerFileCheck ==
    /\ (~input_pdf_exists \/ ~image_exists) =>
          /\ pc \in {"convert", "check_input", "check_image", "raised"}
          /\ pc = "raised" => raised.type = "FileNotFoundError"
          /\ opened = {}
          /\ input_pdf = <<>>
          /\ img = FALSE
          /\ page_num = -1
          /\ draws = <<>>
          /\ ~output_file.exists
    /\ raised.type = "FileNotFoundError" =>
          /\ ~input_pdf_exists \/ ~image_exists
          /\ raised.what = (IF ~input_pdf_exists THEN "Input PDF" ELSE "Image")
    /\ raised.type = "ValueError" => (input_pdf_exists /\ image_exists)

\* the document is there, the image is not, and the run has failed
C3_Witness ==
    /\ pc = "raised"
    /\ raised.type = "FileNotFoundError"
    /\ input_pdf_exists
    /\ ~image_exists
    /\ Len(pdf_file) >= 1

(***************************************************************************)
(* C4  A successful run over N pages writes N pages, the i-th being the    *)
(* i-th page of the input with exactly one overlay on top of its original  *)
(* content.                                                                *)
(***************************************************************************)
C4_OutputPages ==
    pc = "done" =>
        /\ Len(output_file.pages) = Len(pdf_file)
        /\ \A i \in 1..Len(pdf_file) :
              LET q == output_file.pages[i]
              IN  /\ q.id = i
                  /\ q.mediabox = pdf_file[i].mediabox
                  /\ q.attrs = pdf_file[i].attrs
                  /\ Len(q.content) = 2
                  /\ q.content[1] = Original(i).content[1]
                  /\ q.content[2].pagesize = Shown(pdf_file[i])

\* a written document of two different pages
C4_Witness ==
    /\ pc = "done"
    /\ Len(pdf_file) >= 2
    /\ pdf_file[1] # pdf_file[2]
    /\ Len(output_file.pages) = Len(pdf_file)

(***************************************************************************)
(* C5  calculate_position_bounds returns (side_m, page_w - img_w - side_m, *)
(* bottom_m, page_h - img_h - top_m) and fails exactly when                *)
(* img_w + 2*side_m >= page_w or img_h + top_m + bottom_m >= page_h, the   *)
(* case of equality included: returned bounds have max_x > min_x and       *)
(* max_y > min_y.                                                          *)
(***************************************************************************)
C5_PositionBounds ==
    /\ pc \in {"pp_position", "pp_layer", "pp_merge"} =>
          /\ bounds = << side_margin_points,
                         page_width - img_width - side_margin_points,
                         bottom_margin_points,
                         page_height - img_height - top_margin_points >>
          /\ bounds[2] > bounds[1]
          /\ bounds[4] > bounds[3]
          /\ img_width + 2 * side_margin_points < page_width
          /\ img_height + top_margin_points + bottom_margin_points < page_height
    /\ pc = "except" =>
          LET d == Shown(pdf_file[page_num + 1])
          IN  \/ d[1] - img_width - side_margin_points <= side_margin_points
              \/ d[2] - img_height - top_margin_points <= bottom_margin_points
    /\ pc = "except" =>
          LET d == Shown(pdf_file[page_num + 1])
          IN  \/ img_width + 2 * side_margin_points >= d[1]
              \/ img_height + top_margin_points + bottom_margin_points >= d[2]

\* the image and the side margins fill the width of the page exactly, the
\* height would do, and the computation has failed
C5_Witness ==
    /\ pc = "except"
    /\ LET d == Shown(pdf_file[page_num + 1])
       IN  /\ d[1] - img_width - side_margin_points = side_margin_points
           /\ d[2] - img_height - top_margin_points > bottom_margin_points

(***************************************************************************)
(* C6  On every composited page the anchor of the image lies within the    *)
(* bounds of that page: side_m <= x <= page_w - img_w - side_m and         *)
(* bottom_m <= y <= page_h - img_h - top_m, with the displayed dimensions  *)
(* of the page and the margins converted to points.                        *)
(***************************************************************************)
C6_AnchorWithinBounds ==
    \A i \in 1..Len(input_pdf) :
        Len(input_pdf[i].content) > 1 =>
            LET d == Shown(pdf_file[i])
                layer == input_pdf[i].content[2]
                x == layer.translate[1]
                y == layer.translate[2]
            IN  /\ side_margin * MM_TO_POINTS <= x
                /\ x <= d[1] - img_width - side_margin * MM_TO_POINTS
                /\ bottom_margin * MM_TO_POINTS <= y
                /\ y <= d[2] - img_height - top_margin * MM_TO_POINTS

\* a composited page whose image sits in the lower left corner of the
\* bounds, and another one in the upper right corner
C6_Witness ==
    /\ Len(output_pdf) = 2
    /\ output_pdf[1].content[2].translate =
          <<side_margin * MM_TO_POINTS, bottom_margin * MM_TO_POINTS>>
    /\ LET d == Shown(pdf_file[2])
       IN  output_pdf[2].content[2].translate =
              << d[1] - img_width - side_margin * MM_TO_POINTS,
                 d[2] - img_height - top_margin * MM_TO_POINTS >>

C8_PageOrientation ==
    /\ pc = "pp_bounds" =>
          LET p == pdf_file[page_num + 1]
              flagged == "/Rotate" \in DOMAIN p.attrs
          IN  /\ (flagged /\ p.attrs["/Rotate"] \in {90, 270}) =>
                    (page_width = p.mediabox[2] /\ page_height = p.mediabox[1])
              /\ (~flagged \/ p.attrs["/Rotate"] \notin {90, 270}) =>
                    (page_width = p.mediabox[1] /\ page_height = p.mediabox[2])
              /\ is_landscape = (page_width > page_height)
              /\ page_width = page_height => ~is_landscape
    /\ pc \in {"angle", "pp_orient", "pp_bounds"} =>
          /\ input_pdf[page_num + 1] = Original(page_num + 1)
          /\ LET p == pdf_file[page_num + 1]
                 turned == "/Rotate" \in DOMAIN p.attrs
                              /\ p.attrs["/Rotate"] \in {90, 270}
             IN  is_landscape = IF turned THEN p.mediabox[2] > p.mediabox[1]
                                ELSE p.mediabox[1] > p.mediabox[2]

\* a square page flagged 270 has been resolved and is not landscape
C8_Witness ==
    /\ pc = "pp_bounds"
    /\ get_rotate(pdf_file[page_num + 1]) = 270
    /\ pdf_file[page_num + 1].mediabox[1] = pdf_file[page_num + 1].mediabox[2]
    /\ page_width = page_height
    /\ ~is_landscape

(***************************************************************************)
(* C9  Scaling as claimed: native (w, h) with w <= m is returned as it     *)
(* is, otherwise the width is m and the height h' satisfies h' * w = h * m *)
(* exactly; the result is never wider than w nor than max(w, m); and the   *)
(* dimensions computed once are those of every overlay.                    *)
(***************************************************************************)
C9_ExactScaling ==
    "image" \in opened =>
        LET w == image_file[1]
            h == image_file[2]
            m == DefaultMaxWidth
        IN  /\ Float(w) <= m => (img_width = Float(w) /\ img_height = Float(h))
            /\ Float(w) > m => (img_width = m /\ img_height * w = h * m)
            /\ img_width <= Float(w)
            /\ img_width <= (IF Float(w) > m THEN Float(w) ELSE m)
            /\ \A i \in 1..Len(input_pdf) :
                  Len(input_pdf[i].content) > 1 =>
                      /\ input_pdf[i].content[2].width = img_width
                      /\ input_pdf[i].content[2].height = img_height

(***************************************************************************)
(* C9 (amended)  As above, but the height of a scaled image is h * m / w   *)
(* up to the rounding of the division: h' * w differs from h * m by less   *)
(* than w units of the last place.                                         *)
(***************************************************************************)
C9_ScalingUpToRounding ==
    "image" \in opened =>
        LET w == image_file[1]
            h == image_file[2]
            m == DefaultMaxWidth
        IN  /\ Float(w) <= m => (img_width = Float(w) /\ img_height = Float(h))
            /\ Float(w) > m =>
                  /\ img_width = m
                  /\ img_height * w - h * m < w
                  /\ h * m - img_height * w < w
            /\ img_width <= Float(w)
            /\ img_width <= (IF Float(w) > m THEN Float(w) ELSE m)
            /\ \A i \in 1..Len(input_pdf) :
                  Len(input_pdf[i].content) > 1 =>
                      /\ input_pdf[i].content[2].width = img_width
                      /\ input_pdf[i].content[2].height = img_height

\* an image of 201 x 5 pixels, scaled to a height that is not exact, on two
\* composited pages
C9_Witness ==
    /\ image_file = <<201, 5>>
    /\ img_width = DefaultMaxWidth
    /\ img_height * 201 # 5 * DefaultMaxWidth
    /\ Len(output_pdf) = 2

(***************************************************************************)
(* The steps of a page (numbered from 0), read off the state.              *)
(***************************************************************************)
DrawsOf(i) == { k \in 1..Len(draws) : draws[k].page = i }

Appended(i) == \E k \in 1..Len(output_pdf) : output_pdf[k].id = i + 1

Composited(i) == i < Len(input_pdf) /\ Len(input_pdf[i + 1].content) > 1

Sampled(i) == \E k \in DrawsOf(i) : draws[k].var \in {"x_pos", "y_pos"}

Failed(i) == i = page_num /\ pc \in {"except", "raised"}

Stage(i) ==
    IF Failed(i) THEN "Failed"
    ELSE IF Appended(i) THEN "Appended"
    ELSE IF Composited(i) THEN "Composited"
    ELSE IF Sampled(i) THEN "PlacementSampled"
    ELSE IF i = page_num /\ pc = "pp_position" THEN "BoundsComputed"
    ELSE IF i = page_num /\ pc \in {"angle", "pp_orient", "pp_bounds"}
         THEN "OrientationResolved"
    ELSE "Pending"

PageNumbers == 0..(Len(pdf_file) - 1)

(***************************************************************************)
(* C10  As claimed: page i+1 leaves Pending only after page i is Appended, *)
(* and a page whose bounds computation failed has had no random value      *)
(* drawn (neither x, y nor the rotation angle) and is neither composited   *)
(* nor appended.                                                           *)
(***************************************************************************)
C10_NoDrawForFailedPage ==
    \A i \in PageNumbers :
        /\ (i > 0 /\ Stage(i) # "Pending") => Stage(i - 1) = "Appended"
        /\ Stage(i) = "Failed" =>
              /\ DrawsOf(i) = {}
              /\ ~Composited(i)
              /\ ~Appended(i)

(***************************************************************************)
(* C10 (amended)  Each page moves Pending -> OrientationResolved ->        *)
(* BoundsComputed -> PlacementSampled -> Composited -> Appended in that    *)
(* order, page i+1 leaving Pending only after page i is Appended; the      *)
(* rotation angle is drawn once orientation is resolved, before the bounds *)
(* are computed; when bounds computation fails the page goes from          *)
(* OrientationResolved to Failed, with its rotation angle drawn but no x   *)
(* or y, and it is neither composited nor appended.                        *)
(***************************************************************************)
C10_PageSteps ==
    /\ [][ \A i \in PageNumbers :
              Stage(i)' # Stage(i) =>
                  <<Stage(i), Stage(i)'>> \in
                      { <<"Pending", "OrientationResolved">>,
                        <<"OrientationResolved", "BoundsComputed">>,
                        <<"OrientationResolved", "Failed">>,
                        <<"BoundsComputed", "PlacementSampled">>,
                        <<"PlacementSampled", "Composited">>,
                        <<"Composited", "Appended">> } ]_vars
    /\ [] \A i \in PageNumbers :
              /\ (i > 0 /\ Stage(i) # "Pending") => Stage(i - 1) = "Appended"
              /\ Stage(i) \in {"BoundsComputed", "PlacementSampled",
                               "Composited", "Appended"} =>
                    /\ ~NoRoom(pdf_file[i + 1])
                    /\ \E k \in DrawsOf(i) : draws[k].var = "rotation_angle"
              /\ Stage(i) = "Failed" =>
                    /\ NoRoom(pdf_file[i + 1])
                    /\ { draws[k].var : k \in DrawsOf(i) } = {"rotation_angle"}
                    /\ Cardinality(DrawsOf(i)) = 1
                    /\ ~Composited(i)
                    /\ ~Appended(i)
              /\ Stage(i) = "Pending" => DrawsOf(i) = {}
              /\ Cardinality(DrawsOf(i)) <= 3

\* the second page failed after its angle was drawn, the first is appended
C10_Witness ==
    /\ Len(pdf_file) >= 2
    /\ Stage(0) = "Appended"
    /\ Stage(1) = "Failed"
    /\ \E k \in DrawsOf(1) : draws[k].var = "rotation_angle"

====
